---- MODULE Spec2Model ----
(***************************************************************************)
(* MemoryPool / TypedMemoryPool<T> of src/memory_pool.cpp as a state       *)
(* machine.  Memory is byte addressed: a block is the byte range           *)
(* [b, b + block_size_) that new char[block_size_] returned, a pointer     *)
(* stored at address a occupies [a, a + PtrSize), and a store that         *)
(* overlaps a stored pointer without replacing it destroys that pointer.   *)
(***************************************************************************)
EXTENDS Integers, Sequences, FiniteSets, TLC

VARIABLES pc, T, args, pool, heap, handed, log

vars == <<pc, T, args, pool, heap, handed, log>>

(* ---------------------------------------------------------------- bounds *)

\* largest initial_chunks_per_block a pool is constructed with
MaxChunksPerBlock == 2

\* number of operations (calls on the pool) of one run
MaxOps == 6

\* the heap new char[] allocates from has HeapSlots slots of HeapAlign bytes
HeapSlots == 9

\* number of calls of one run that pass a null pointer or in which T's
\* constructor or destructor throws
MaxRareCalls == 1

\* number of calls made on a pool that was constructed with invalid arguments
MaxInvalidOps == 3

\* largest sizeof(T) of the element types a typed pool is sized for
MaxSizeof == 32

(* ------------------------------------------------------------- constants *)

\* sizeof(Chunk*) == sizeof(Block*)
PtrSize == 8

\* new char[] returns storage aligned for a Block (it is used as one)
HeapAlign == PtrSize

HeapEnd == HeapAlign * HeapSlots

\* pointer arithmetic is modulo the width of uintptr_t (scaled to the heap)
AddrSpace == 2 * HeapEnd

NULL == 0

Max(a, b) == IF a >= b THEN a ELSE b

\* struct DummyPoint {int x; int y; int z;}
Types == { [size |-> 12, align |-> 4] }

\* a raw MemoryPool has no element type
NoType == [size |-> 0, align |-> 0]

\* the arguments of MemoryPool(chunk_size, chunk_alignment, initial_chunks_per_block)
ChunkSizes == {4, 12}

Alignments == {4, 8, 16}

ChunksPerBlock == 1 .. MaxChunksPerBlock

NoArgs == [chunk_size |-> 0, chunk_alignment |-> 0, initial_chunks_per_block |-> 0]

(* ---------------------------------------------------------------- memory *)

\* the pointers stored in memory that a store to [a, a + len) leaves intact
Intact(mem, a, len) == { x \in DOMAIN mem : x + PtrSize <= a \/ x >= a + len }

\* *(T**)a = v
WritePtr(h, a, v) ==
    [h EXCEPT !.mem = (a :> v) @@ [x \in Intact(h.mem, a, PtrSize) |-> h.mem[x]]]

\* a store of len bytes of payload at a
WriteBytes(h, a, len) ==
    [h EXCEPT !.mem = [x \in Intact(h.mem, a, len) |-> h.mem[x]]]

\* a pointer to no object: an address outside the heap
Wild == AddrSpace

\* what a load of the pointer at a can yield: the pointer stored there, or,
\* when none is stored there intact, an indeterminate value, null or not
ReadPtr(h, a) ==
    IF a \in DOMAIN h.mem THEN {h.mem[a]} ELSE {NULL, Wild}

\* the addresses new char[size] can return: aligned, inside the heap, and
\* disjoint from every block that has not been deleted (every block of one
\* pool has the same size, block_size_)
NewPlacements(h, size) ==
    { b \in {HeapAlign * k : k \in 1 .. HeapSlots - 1} :
        /\ b + size <= HeapEnd
        /\ \A i \in DOMAIN h.blocks :
              \/ h.blocks[i] \in {h.released[j] : j \in DOMAIN h.released}
              \/ b + size <= h.blocks[i]
              \/ h.blocks[i] + size <= b }

(* ------------------------------------------------------------ MemoryPool *)

\* x % y and x / y of size_t.  With y = 0 the division is undefined: a build
\* traps (see Divisions), or yields the remainder x and the quotient 0
Rem(x, y) == IF y = 0 THEN x ELSE x % y

Quot(x, y) == IF y = 0 THEN 0 ELSE x \div y

\* how the divisions by y of one call can end
Divisions(y) == IF y = 0 THEN {"ok", "trap"} ELSE {"ok"}

getAssignment(chunk_size, chunk_alignment) ==
    IF Rem(chunk_size, chunk_alignment) = 0
    THEN chunk_size
    ELSE Quot(chunk_size, chunk_alignment) * (chunk_alignment + 1)

\* the constructor without the room for the free-list pointer
MemoryPoolNoPointerRoom(chunk_size, chunk_alignment, initial_chunks_per_block) ==
    LET cs == getAssignment(chunk_size, chunk_alignment)
    IN  [ chunk_size_       |-> cs,
          chunks_per_block_ |-> initial_chunks_per_block,
          block_size_       |-> PtrSize + (cs + 1) * initial_chunks_per_block,
          current_block_    |-> NULL,
          current_chunk_    |-> NULL,
          last_chunk_       |-> NULL,
          free_chunks_      |-> NULL ]

\* MemoryPool::MemoryPool
MemoryPool(chunk_size, chunk_alignment, initial_chunks_per_block) ==
    LET cs == getAssignment(Max(PtrSize, chunk_size), chunk_alignment)
    IN  [ chunk_size_       |-> cs,
          chunks_per_block_ |-> initial_chunks_per_block,
          block_size_       |-> PtrSize + (cs + 1) * initial_chunks_per_block,
          current_block_    |-> NULL,
          current_chunk_    |-> NULL,
          last_chunk_       |-> NULL,
          free_chunks_      |-> NULL ]

\* allocateBlock with a block limit one chunk too far
allocateBlockOneChunkMore(p, h, new_block, rem) ==
    LET first_chunk == new_block + PtrSize
        padding     == (p.chunk_size_ - rem) % AddrSpace
    IN  [ pool |-> [p EXCEPT
                      !.current_block_ = new_block,
                      !.current_chunk_ = (first_chunk + padding) % AddrSpace,
                      !.last_chunk_    = (first_chunk + padding
                                            + (p.chunks_per_block_ + 1) * p.chunk_size_)
                                         % AddrSpace],
          heap |-> WritePtr([h EXCEPT !.blocks = Append(@, new_block)],
                            new_block, p.current_block_) ]

\* MemoryPool::allocateBlock, new_block being what new char[block_size_]
\* returned and rem the value of address % chunk_size_
allocateBlock(p, h, new_block, rem) ==
    LET h1          == WritePtr([h EXCEPT !.blocks = Append(@, new_block)],
                                new_block, p.current_block_)
        first_chunk == new_block + PtrSize
        padding     == (p.chunk_size_ - rem) % AddrSpace
    IN  [ pool |-> [p EXCEPT
                      !.current_block_ = new_block,
                      !.current_chunk_ = (first_chunk + padding) % AddrSpace,
                      !.last_chunk_    = (first_chunk + padding
                                            + p.chunks_per_block_ * p.chunk_size_)
                                         % AddrSpace],
          heap |-> h1 ]

\* address % chunk_size_ in allocateBlock: with chunk_size_ = 0 the division
\* is undefined; a build either traps (no value) or yields the dividend
Remainders(address, chunk_size_) ==
    IF chunk_size_ = 0 THEN {address} ELSE {address % chunk_size_}

\* bump without the advance of current_chunk_
bumpNoAdvance(s) ==
    [pool |-> s.pool, heap |-> s.heap, ret |-> s.pool.current_chunk_, status |-> "ok"]

\* the bump allocation that ends MemoryPool::allocate
bump(s) ==
    [ pool   |-> [s.pool EXCEPT !.current_chunk_ =
                      (s.pool.current_chunk_ + s.pool.chunk_size_) % AddrSpace],
      heap   |-> s.heap,
      ret    |-> s.pool.current_chunk_,
      status |-> "ok" ]

\* the free list used only once the current block is exhausted
useFreeListLast(p) == p.free_chunks_ # NULL /\ p.current_chunk_ >= p.last_chunk_

\* if(free_chunks_) of MemoryPool::allocate
useFreeList(p) == p.free_chunks_ # NULL

\* MemoryPool::allocate: the outcomes of one call, each the pool and the heap
\* after it, the pointer returned and how the call ended ("ok", "bad_alloc"
\* thrown by new, "trap" on the division by zero)
allocate(p, h) ==
    IF useFreeList(p)
    THEN { [ pool   |-> [p EXCEPT !.free_chunks_ = next],
             heap   |-> h,
             ret    |-> p.free_chunks_,
             status |-> "ok" ] : next \in ReadPtr(h, p.free_chunks_) }
    ELSE IF p.current_chunk_ >= p.last_chunk_
    THEN IF NewPlacements(h, p.block_size_) = {}
         THEN { [pool |-> p, heap |-> h, ret |-> NULL, status |-> "bad_alloc"] }
         ELSE UNION { { bump(allocateBlock(p, h, b, rem)) :
                          rem \in Remainders(b + PtrSize, p.chunk_size_) }
                      \cup (IF p.chunk_size_ = 0
                            THEN { [pool   |-> [p EXCEPT !.current_block_ = b],
                                    heap   |-> allocateBlock(p, h, b, 0).heap,
                                    ret    |-> NULL,
                                    status |-> "trap"] }
                            ELSE {})
                      : b \in NewPlacements(h, p.block_size_) }
    ELSE { bump([pool |-> p, heap |-> h]) }

\* deallocate with the link to the rest of the free list left out
deallocateNoLink(p, h, ptr) ==
    IF ptr # NULL
    THEN [ pool |-> [p EXCEPT !.free_chunks_ = ptr],
           heap |-> WritePtr(h, ptr, NULL) ]
    ELSE [ pool |-> p, heap |-> h ]

\* deallocate that pushes whatever pointer it is given
deallocateUnchecked(p, h, ptr) ==
    [ pool |-> [p EXCEPT !.free_chunks_ = ptr],
      heap |-> WritePtr(h, ptr, p.free_chunks_) ]

\* MemoryPool::deallocate
deallocate(p, h, ptr) ==
    IF ptr # NULL
    THEN [ pool |-> [p EXCEPT !.free_chunks_ = ptr],
           heap |-> WritePtr(h, ptr, p.free_chunks_) ]
    ELSE [ pool |-> p, heap |-> h ]

\* one iteration of the loop of MemoryPool::~MemoryPool: the outcomes of
\* reading current_block_->next and delete[] current_block_ (no destructor
\* of T is run on the chunks of the block).  With
\* current_block_ no block (a destroyed next pointer was read) both are
\* undefined: the run crashes, or deletes the pointer and ends the loop.
destructorBody(p, h) ==
    LET b  == p.current_block_
        h1 == [h EXCEPT !.released = Append(@, b)]
    IN  IF b \in {h.blocks[i] : i \in DOMAIN h.blocks}
        THEN { [pool |-> [p EXCEPT !.current_block_ = next], heap |-> h1,
                status |-> "ok", exc |-> "none"] : next \in ReadPtr(h, b) }
        ELSE { [pool |-> p, heap |-> h, status |-> "crash", exc |-> "none"],
               [pool |-> [p EXCEPT !.current_block_ = NULL], heap |-> h1,
                status |-> "ok", exc |-> "none"] }

RECURSIVE destructor(_, _)
\* MemoryPool::~MemoryPool: the outcomes of the loop, each the pool and the
\* heap after it, how it ended ("ok", or "crash") and how the destructor of T
\* it ran ended ("none": it runs none)
destructor(p, h) ==
    IF p.current_block_ = NULL
    THEN { [pool |-> p, heap |-> h, status |-> "ok", exc |-> "none"] }
    ELSE UNION { IF d.status = "ok" THEN destructor(d.pool, d.heap) ELSE {d} :
                   d \in destructorBody(p, h) }

(* ------------------------------------------------------- TypedMemoryPool *)

\* how T's constructor, run by the placement new of make, can end: normally,
\* throwing an exception derived from std::exception, throwing anything else
CtorOutcomes == {"ok", "std_exception", "other_exception"}

\* how T's destructor, run by destroy, can end
DtorOutcomes == {"ok", "std_exception", "other_exception"}

\* TypedMemoryPool<T>::make: the outcomes of one call.  mem is the chunk
\* allocate() returned, exc how T's constructor ended, ret the pointer make
\* returns, and status how the call ended ("ok", or the exception that left it)
make(p, h, t) ==
    UNION { IF a.status # "ok"
            THEN { [pool |-> a.pool, heap |-> a.heap, mem |-> NULL,
                    ret |-> NULL, status |-> a.status, exc |-> "ok"] }
            ELSE { IF ctor = "ok"
                   THEN [ pool |-> a.pool,
                          heap |-> WriteBytes(a.heap, a.ret, t.size),
                          mem |-> a.ret, ret |-> a.ret, status |-> "ok",
                          exc |-> ctor ]
                   ELSE IF ctor = "std_exception"
                   THEN LET d == deallocate(a.pool, a.heap, a.ret)
                        IN  [ pool |-> d.pool, heap |-> d.heap,
                              mem |-> a.ret, ret |-> NULL, status |-> "ok",
                              exc |-> ctor ]
                   ELSE [ pool |-> a.pool, heap |-> a.heap,
                          mem |-> a.ret, ret |-> NULL, status |-> "exception",
                          exc |-> ctor ]
                   : ctor \in CtorOutcomes }
            : a \in allocate(p, h) }

\* TypedMemoryPool<T>::destroy, dtor being how ptr->~T() ends when it is run.
\* exc is how the destructor the call ran ended, "none" when it ran none
destroy(p, h, ptr, dtor) ==
    IF ptr # NULL
    THEN IF dtor \in {"ok", "std_exception"}
         THEN LET d == deallocate(p, h, ptr)
              IN  [pool |-> d.pool, heap |-> d.heap, status |-> "ok", exc |-> dtor]
         ELSE [pool |-> p, heap |-> h, status |-> "exception", exc |-> dtor]
    ELSE [pool |-> p, heap |-> h, status |-> "ok", exc |-> "none"]

(* --------------------------------------------------------- state machine *)

EmptyMem == [x \in {} |-> NULL]

Uninitialised ==
    [ chunk_size_ |-> 0, chunks_per_block_ |-> 0, block_size_ |-> 0,
      current_block_ |-> NULL, current_chunk_ |-> NULL, last_chunk_ |-> NULL,
      free_chunks_ |-> NULL ]

\* the arguments a constructor is called with: those of MemoryPool, or, for
\* TypedMemoryPool<T>, the element type and initial_chunks_per_block
ValidArgs ==
    { <<NoType, [chunk_size |-> c, chunk_alignment |-> a,
                 initial_chunks_per_block |-> n]>> :
        c \in ChunkSizes, a \in Alignments, n \in ChunksPerBlock }
    \cup
    { <<t, [NoArgs EXCEPT !.initial_chunks_per_block = n]>> :
        t \in Types, n \in ChunksPerBlock }

\* arguments the constructors accept although the pool cannot work with
\* them: chunk_alignment = 0, initial_chunks_per_block = 0
InvalidArgs ==
    { <<NoType, [chunk_size |-> c, chunk_alignment |-> 0,
                 initial_chunks_per_block |-> n]>> :
        c \in ChunkSizes, n \in ChunksPerBlock }
    \cup
    { <<NoType, [chunk_size |-> c, chunk_alignment |-> a,
                 initial_chunks_per_block |-> 0]>> :
        c \in ChunkSizes, a \in Alignments }
    \cup
    { <<t, NoArgs>> : t \in Types }

\* the state before the constructor is called with one of the arguments of A
Start(A) ==
    /\ pc = "new"
    /\ \E ta \in A : T = ta[1] /\ args = ta[2]
    /\ pool = Uninitialised
    /\ heap = [mem |-> EmptyMem, blocks |-> <<>>, released |-> <<>>]
    /\ handed = {}
    /\ log = <<>>

Init == Start(ValidArgs)

RECURSIVE IsPowerOfTwo(_)
IsPowerOfTwo(a) == a = 1 \/ (a > 1 /\ a % 2 = 0 /\ IsPowerOfTwo(a \div 2))

\* the object types T of at most MaxSizeof bytes: sizeof(T) >= 1 is a
\* multiple of alignof(T), a power of two
SizedTypes ==
    { t \in [size : 1 .. MaxSizeof, align : 1 .. MaxSizeof] :
        IsPowerOfTwo(t.align) /\ t.size % t.align = 0 }

\* TypedMemoryPool<T> m(initial_chunks_per_block) for every such T
InitSizing ==
    Start({ <<t, [NoArgs EXCEPT !.initial_chunks_per_block = n]>> :
              t \in SizedTypes, n \in ChunksPerBlock })

InitInvalidArgs == Start(InvalidArgs)

\* a call as the log keeps it: the pointer passed or returned, how the call
\* ended, the chunk allocate() returned in it, how T's constructor or
\* destructor ended in it, and the number of blocks allocated so far
Entry(op, ptr, res, mem, exc, h) ==
    [op |-> op, ptr |-> ptr, res |-> res, mem |-> mem, exc |-> exc,
     nb |-> Len(h.blocks)]

\* the calls so far that passed a null pointer
NullCalls ==
    Cardinality({i \in DOMAIN log :
                   log[i].op \in {"deallocate", "destroy"} /\ log[i].ptr = NULL})

\* the calls so far in which T's constructor or destructor threw
Throws == Cardinality({i \in DOMAIN log : log[i].exc \notin {"ok", "none"}})

\* the calls so far that took one of the uncommon paths
RareCalls == NullCalls + Throws

\* MemoryPool mm(chunk_size, chunk_alignment, initial_chunks_per_block)
NewMemoryPool ==
    /\ pc = "new" /\ T = NoType
    /\ \E div \in Divisions(args.chunk_alignment) :
          /\ pool' = IF div = "ok"
                     THEN MemoryPool(args.chunk_size, args.chunk_alignment,
                                     args.initial_chunks_per_block)
                     ELSE pool
          /\ pc' = IF div = "ok" THEN "live" ELSE "crashed"
    /\ args' = NoArgs
    /\ UNCHANGED <<T, heap, handed, log>>

\* TypedMemoryPool<T> m(initial_chunks_per_block)
NewTypedMemoryPool ==
    /\ pc = "new" /\ T # NoType
    /\ pool' = MemoryPool(T.size, T.align, args.initial_chunks_per_block)
    /\ pc' = "live"
    /\ args' = NoArgs
    /\ UNCHANGED <<T, heap, handed, log>>

\* p = mm.allocate()
Allocate ==
    /\ pc = "live" /\ T = NoType /\ Len(log) < MaxOps
    /\ \E a \in allocate(pool, heap) :
          /\ pool' = a.pool
          /\ heap' = a.heap
          /\ pc' = IF a.status = "trap" THEN "crashed" ELSE pc
          /\ handed' = IF a.ret # NULL THEN handed \cup {a.ret} ELSE handed
          /\ log' = Append(log, Entry("allocate", a.ret, a.status, a.ret, "ok", a.heap))
    /\ UNCHANGED <<T, args>>

\* mm.deallocate(ptr), ptr a pointer the caller holds, or null
Deallocate ==
    /\ pc = "live" /\ T = NoType /\ Len(log) < MaxOps
    /\ \E ptr \in handed \cup {NULL} :
          LET d == deallocate(pool, heap, ptr)
          IN  /\ ptr = NULL => RareCalls < MaxRareCalls
              /\ pool' = d.pool
              /\ heap' = d.heap
              /\ handed' = handed \ {ptr}
              /\ log' = Append(log, Entry("deallocate", ptr, "ok", NULL, "ok", d.heap))
    /\ UNCHANGED <<pc, T, args>>

\* obj = m.make(...)
Make ==
    /\ pc = "live" /\ T # NoType /\ Len(log) < MaxOps
    /\ \E m \in make(pool, heap, T) :
          /\ m.exc # "ok" => RareCalls < MaxRareCalls
          /\ pool' = m.pool
          /\ heap' = m.heap
          /\ pc' = IF m.status = "trap" THEN "crashed" ELSE pc
          /\ handed' = IF m.ret # NULL THEN handed \cup {m.ret} ELSE handed
          /\ log' = Append(log, Entry("make", m.ret, m.status, m.mem, m.exc, m.heap))
    /\ UNCHANGED <<T, args>>

\* m.destroy(ptr), ptr an object the caller holds, or null
Destroy ==
    /\ pc = "live" /\ T # NoType /\ Len(log) < MaxOps
    /\ \E ptr \in handed \cup {NULL}, dtor \in DtorOutcomes :
          LET d == destroy(pool, heap, ptr, dtor)
          IN  /\ ptr = NULL => RareCalls < MaxRareCalls
              /\ (ptr # NULL /\ dtor # "ok") => RareCalls < MaxRareCalls
              /\ pool' = d.pool
              /\ heap' = d.heap
              /\ handed' = handed \ {ptr}
              /\ log' = Append(log, Entry("destroy", ptr, d.status, NULL, d.exc,
                                          d.heap))
    /\ UNCHANGED <<pc, T, args>>

\* the pool goes out of scope: MemoryPool::~MemoryPool
Destructor ==
    /\ pc = "live"
    /\ \E d \in destructor(pool, heap) :
          /\ pool' = d.pool
          /\ heap' = d.heap
          /\ pc' = IF d.status = "ok" THEN "destroyed" ELSE "crashed"
          /\ log' = Append(log, Entry("teardown", NULL, d.status, NULL, d.exc,
                                      d.heap))
    /\ UNCHANGED <<T, args, handed>>

Next ==
    \/ NewMemoryPool
    \/ NewTypedMemoryPool
    \/ Allocate
    \/ Deallocate
    \/ Make
    \/ Destroy
    \/ Destructor

Spec == Init /\ [][Next]_vars

\* the first calls on a pool constructed with invalid arguments
NextInvalidArgs == Len(log) < MaxInvalidOps /\ Next

SpecInvalidArgs == InitInvalidArgs /\ [][NextInvalidArgs]_vars

\* the construction of a typed pool for every type of SizedTypes
SpecSizing == InitSizing /\ [][NewTypedMemoryPool]_vars

(* ------------------------------------------------------------ the claims *)

Blocks == {heap.blocks[i] : i \in DOMAIN heap.blocks}

Released == {heap.released[i] : i \in DOMAIN heap.released}

RECURSIVE Chain(_, _, _)
\* the chunks reached from a through the stored next pointers, k at most
Chain(h, a, k) ==
    IF a = NULL \/ k = 0 THEN <<>>
    ELSE <<a>> \o (IF a \in DOMAIN h.mem THEN Chain(h, h.mem[a], k - 1) ELSE <<>>)

\* the free list, head first
FreeList == Chain(heap, pool.free_chunks_, MaxOps + 1)

Count(s, a) == Cardinality({i \in DOMAIN s : s[i] = a})

Last(s) == s[Len(s)]

\* the call log[i] gave the caller a chunk (a null pointer is no chunk)
Acquires(i) ==
    log[i].op \in {"allocate", "make"} /\ log[i].res = "ok" /\ log[i].ptr # NULL

\* the call log[i] took a chunk back from the caller
Releases(i) == log[i].op \in {"deallocate", "destroy"} /\ log[i].ptr # NULL

\* the chunks allocate() has returned so far
Returned == {log[i].mem : i \in {j \in DOMAIN log : log[j].mem # NULL}}

\* a step of Next that is a call of op
Calls(op) == log' # log /\ Last(log').op = op

\* C1: with a caller that deallocates only what allocate() returned to it, and
\* only once, every chunk allocate() has returned is either held by the caller
\* or exactly once in the free list, never both; allocate() never returns a
\* chunk the caller still holds; the chunks held do not overlap.
C1_ChunksPartitioned ==
    T = NoType =>
        /\ \A a \in Returned :
              /\ Count(FreeList, a) <= 1
              /\ (a \in handed) <=> (Count(FreeList, a) = 0)
        /\ \A i, j \in DOMAIN log :
              (i < j /\ Acquires(i) /\ Acquires(j) /\ log[i].ptr = log[j].ptr)
                  => \E k \in (i + 1) .. (j - 1) :
                        Releases(k) /\ log[k].ptr = log[i].ptr
        /\ \A a, b \in handed \ {NULL} :
              a # b => (a + pool.chunk_size_ <= b \/ b + pool.chunk_size_ <= a)

\* a chunk was allocated, freed and allocated again while another one is
\* held and a third is in the free list
C1_Witness ==
    /\ T = NoType
    /\ Cardinality(handed \ {NULL}) >= 2
    /\ Len(FreeList) >= 1
    /\ \E i, j \in DOMAIN log :
          i < j /\ Acquires(i) /\ Acquires(j) /\ log[i].ptr = log[j].ptr

\* C2: every chunk allocate() returns lies inside a block the allocator owns,
\* after the block's link word: [addr, addr + chunk_size_) is within
\* [block + PtrSize, block + block_size_).
C2_ChunkInsideBlock ==
    \A a \in Returned :
        \E b \in Blocks :
            b + PtrSize <= a /\ a + pool.chunk_size_ <= b + pool.block_size_

\* C9: when the free list is not empty, allocate() returns its head, makes
\* the successor stored in the head the new head, and leaves the block list,
\* the bump cursor and the bump limit as they were.
C9_FreeListPriority ==
    [][ (Calls("allocate") /\ pool.free_chunks_ # NULL) =>
            /\ Last(log').ptr = pool.free_chunks_
            /\ Last(log').res = "ok"
            /\ pool.free_chunks_ \in DOMAIN heap.mem
            /\ pool' = [pool EXCEPT !.free_chunks_ = heap.mem[pool.free_chunks_]]
            /\ heap' = heap ]_vars

\* allocate() has just popped the free list of a pool whose current block
\* still has unused chunks
C9_Witness ==
    /\ Len(log) >= 2
    /\ Last(log).op = "allocate"
    /\ log[Len(log) - 1].op = "deallocate"
    /\ log[Len(log) - 1].ptr = Last(log).ptr
    /\ Last(log).ptr # NULL
    /\ pool.current_chunk_ < pool.last_chunk_

\* C10: destroying the allocator releases every block that was allocated
\* exactly once and leaves the block list empty.
C10_TeardownReleasesAll ==
    pc = "destroyed" =>
        /\ pool.current_block_ = NULL
        /\ Len(heap.released) = Len(heap.blocks)
        /\ \A b \in Blocks : Count(heap.released, b) = 1

\* the call log[i] returned a chunk to the free list
Frees(i) == Releases(i) /\ log[i].res = "ok"

\* log[s .. s + 2n - 1] is: n chunks allocated, then all n of them freed
RoundTrip(s, n) ==
    /\ s + 2 * n - 1 <= Len(log)
    /\ \A i \in s .. (s + n - 1) : Acquires(i)
    /\ \A i \in (s + n) .. (s + 2 * n - 1) : Frees(i)
    /\ {log[i].ptr : i \in s .. (s + n - 1)}
         = {log[i].ptr : i \in (s + n) .. (s + 2 * n - 1)}

\* C3: after n chunks are allocated and all n freed, the next n allocations
\* return the same chunks, the most recently freed first, and allocate no
\* block.
C3_Reuse ==
    \A s \in DOMAIN log : \A n \in 1 .. ((Len(log) - s + 1) \div 2) :
        RoundTrip(s, n) =>
            \A j \in 1 .. n :
                LET e == s + 2 * n + j - 1
                IN  ( /\ e <= Len(log)
                      /\ \A i \in (s + 2 * n) .. (e - 1) : Acquires(i)
                      /\ log[e].op \in {"allocate", "make"} )
                    => /\ log[e].mem = log[s + 2 * n - j].ptr
                       /\ log[e].nb = log[s + 2 * n - 1].nb

\* two chunks of two blocks were allocated, freed and allocated again
C3_Witness ==
    /\ RoundTrip(1, 2)
    /\ Len(log) = 6 /\ Acquires(5) /\ Acquires(6)
    /\ log[2].nb = 2
    /\ log[3].ptr = log[1].ptr

\* the first k calls on the pool each allocated a chunk
FreshRun(k) == k <= Len(log) /\ \A i \in 1 .. k : Acquires(i)

\* C4 as stated: the chunks_per_block_ + 1 first allocations of a pool
\* allocate exactly one block, on the last of them.
C4_OneBlockAllocation ==
    FreshRun(pool.chunks_per_block_ + 1) =>
        /\ log[pool.chunks_per_block_ + 1].nb = 1
        /\ log[pool.chunks_per_block_].nb = 0

\* C4 amended: the chunks_per_block_ + 1 first allocations of a pool allocate
\* exactly two blocks, one on the first call (the constructor allocates none)
\* and one on the last.
C4_BlockGrowth ==
    \A k \in 1 .. (pool.chunks_per_block_ + 1) :
        FreshRun(k) =>
            log[k].nb = IF k <= pool.chunks_per_block_ THEN 1 ELSE 2

\* three chunks were allocated from a fresh pool of two chunks per block
C4_Witness ==
    /\ pool.chunks_per_block_ = 2
    /\ FreshRun(3)
    /\ log[3].nb = 2

\* C5: when T's constructor fails in make, the chunk is back at the head of
\* the free list when the call ends, make returns no pointer, and the next
\* make gets that chunk, with no block allocated.
C5_NoLeakOnConstructionFailure ==
    \A i \in DOMAIN log :
        (log[i].op = "make" /\ log[i].mem # NULL /\ log[i].ptr = NULL) =>
            /\ i = Len(log) => pool.free_chunks_ = log[i].mem
            /\ (i < Len(log) /\ log[i + 1].op = "make") =>
                  /\ log[i + 1].mem = log[i].mem
                  /\ log[i + 1].nb = log[i].nb

\* C6: destroy(ptr), ptr not null, leaves ptr at the head of the free list,
\* once in it, however T's destructor ended.
C6_DestroyAlwaysFrees ==
    (log # <<>> /\ Last(log).op = "destroy" /\ Last(log).ptr # NULL) =>
        /\ pool.free_chunks_ = Last(log).ptr
        /\ Count(FreeList, Last(log).ptr) = 1

\* the smallest multiple of a that is at least x
RoundUp(x, a) == ((x + a - 1) \div a) * a

\* the chunk_size and chunk_alignment the constructor of MemoryPool is given
Requested ==
    IF T = NoType THEN args
    ELSE [args EXCEPT !.chunk_size = T.size, !.chunk_alignment = T.align]

\* C7: chunk_size_ is the smallest multiple of chunk_alignment that is at
\* least max(pointer size, chunk_size).
C7_SmallestAlignedSize ==
    [][ pc = "new" =>
          pool'.chunk_size_ = RoundUp(Max(PtrSize, Requested.chunk_size),
                                      Requested.chunk_alignment) ]_vars

\* C8: chunk_size_ is at least max(pointer size, chunk_size).
C8_ChunkHoldsPointerAndPayload ==
    [][ pc = "new" =>
          pool'.chunk_size_ >= Max(PtrSize, Requested.chunk_size) ]_vars

\* C11: destroy(ptr) always returns normally: no failure of T's destructor
\* leaves it as an exception the caller sees.
C11_DestructorFailureSuppressed ==
    \A i \in DOMAIN log : log[i].op = "destroy" => log[i].res = "ok"

\* C12: a constructor called with chunk_alignment = 0 or with
\* initial_chunks_per_block = 0 reports the failure: it neither crashes nor
\* leaves a pool on which allocate() can be called.
C12_InvalidArgumentsRejected ==
    [][ ( /\ pc = "new"
          /\ \/ (T = NoType /\ args.chunk_alignment = 0)
             \/ args.initial_chunks_per_block = 0 )
        => pc' \notin {"live", "crashed"} ]_vars

\* C13: deallocate(null) and destroy(null) return normally and change nothing:
\* the free list, the block list, the bump cursor, the bump limit and the
\* memory are as before, and destroy(null) runs no destructor.
C13_NullIsNoOp ==
    [][ ( (Calls("deallocate") \/ Calls("destroy")) /\ Last(log').ptr = NULL )
        => /\ pool' = pool
           /\ heap' = heap
           /\ handed' = handed
           /\ Last(log').res = "ok"
           /\ Calls("destroy") => Last(log').exc = "none" ]_vars

\* a null pointer was passed to a pool that has a free list and a block with
\* unused chunks
C13_Witness ==
    /\ log # <<>>
    /\ Last(log).op \in {"deallocate", "destroy"}
    /\ Last(log).ptr = NULL
    /\ pool.free_chunks_ # NULL
    /\ pool.current_chunk_ < pool.last_chunk_
    /\ handed # {}

\* the calls so far that ran the destructor of the object at a
Destructions(a) ==
    {i \in DOMAIN log : log[i].ptr = a /\ log[i].exc # "none"
                          /\ log[i].op \in {"destroy", "teardown"}}

\* the calls so far that constructed an object at a
Constructions(a) ==
    {i \in DOMAIN log : log[i].op = "make" /\ log[i].ptr = a}

\* C14 (blocks): tearing down a typed pool while objects are outstanding
\* releases every block, once.
C14_TeardownReleasesBlocks ==
    (pc = "destroyed" /\ T # NoType /\ handed # {}) =>
        /\ Len(heap.released) = Len(heap.blocks)
        /\ \A b \in Blocks : Count(heap.released, b) = 1

\* C14 (destructors): teardown runs the destructor of no object; an object's
\* destructor runs only in destroy(ptr), at most once per make.
C14_TeardownRunsNoDestructor ==
    T # NoType =>
        /\ \A i \in DOMAIN log :
              log[i].op = "teardown" => log[i].exc = "none"
        /\ \A a \in Returned :
              /\ \A i \in Destructions(a) : log[i].op = "destroy"
              /\ Cardinality(Destructions(a)) <= Cardinality(Constructions(a))

\* a is a multiple of chunk_size
Aligned(a, chunk_size) == \E k \in 0 .. AddrSpace : a = k * chunk_size

\* a is the first address after the link word of block b that is a multiple
\* of chunk_size
FirstAligned(a, b, chunk_size) ==
    /\ a >= b + PtrSize
    /\ Aligned(a, chunk_size)
    /\ \A x \in (b + PtrSize) .. (a - 1) : ~Aligned(x, chunk_size)

\* C15: an allocate() that finds the free list empty and the bump cursor at
\* the bump limit obtains one block, links it before the previous head of the
\* block list, returns the first aligned chunk of the block, not null, and
\* leaves the cursor one chunk behind it and the limit chunks_per_block_
\* chunks behind it; with the cursor before the limit it obtains no block.
C15_NewBlockPath ==
    [][ ( /\ Calls("allocate")
          /\ pool.free_chunks_ = NULL
          /\ Last(log').res # "bad_alloc" )
        => IF pool.current_chunk_ >= pool.last_chunk_
           THEN LET b == pool'.current_block_
                    first == Last(log').ptr
                IN  /\ heap'.blocks = Append(heap.blocks, b)
                    /\ b \in DOMAIN heap'.mem
                    /\ heap'.mem[b] = pool.current_block_
                    /\ Last(log').res = "ok"
                    /\ first # NULL
                    /\ FirstAligned(first, b, pool.chunk_size_)
                    /\ pool'.current_chunk_ = first + pool.chunk_size_
                    /\ pool'.last_chunk_
                         = first + pool.chunks_per_block_ * pool.chunk_size_
           ELSE heap'.blocks = heap.blocks ]_vars

\* the number of blocks allocated before the call log[i]
BlocksBefore(i) == IF i = 1 THEN 0 ELSE log[i - 1].nb

\* the call log[i] got from allocate() a chunk that no earlier call got
Fresh(i) ==
    /\ log[i].mem # NULL
    /\ \A j \in 1 .. (i - 1) : log[j].mem # log[i].mem

\* C16: every chunk allocate() returns is at a multiple of chunk_size_: the
\* first chunk of a block is at the first multiple of chunk_size_ after the
\* link word of the block, and every later chunk of the block is chunk_size_
\* after the one before.
C16_ChunksAligned ==
    \A i \in DOMAIN log :
        log[i].mem # NULL =>
            /\ Aligned(log[i].mem, pool.chunk_size_)
            /\ Fresh(i) =>
                  IF log[i].nb > BlocksBefore(i)
                  THEN FirstAligned(log[i].mem, heap.blocks[log[i].nb],
                                    pool.chunk_size_)
                  ELSE \E j \in 1 .. (i - 1) :
                          /\ Fresh(j)
                          /\ \A k \in (j + 1) .. (i - 1) : ~Fresh(k)
                          /\ log[i].mem = log[j].mem + pool.chunk_size_

\* the block list of heap h: every block with the successor its link word holds
BlockList(h) ==
    { <<b, ReadPtr(h, b)>> : b \in {h.blocks[i] : i \in DOMAIN h.blocks} }

\* C17: deallocate(ptr), ptr not null, makes ptr the head of the free list
\* with the previous head in its link word, and changes nothing else: the
\* block list, the bump cursor and the bump limit are as before; no call
\* releases a block, so the blocks owned only grow until teardown.
C17_DeallocateFrame ==
    [][ /\ ( Calls("deallocate") /\ Last(log').ptr # NULL )
            => /\ pool' = [pool EXCEPT !.free_chunks_ = Last(log').ptr]
               /\ Last(log').ptr \in DOMAIN heap'.mem
               /\ heap'.mem[Last(log').ptr] = pool.free_chunks_
               /\ heap'.blocks = heap.blocks
               /\ BlockList(heap') = BlockList(heap)
        /\ ~Calls("teardown")
            => /\ heap'.released = heap.released
               /\ \A i \in DOMAIN heap.blocks :
                     i \in DOMAIN heap'.blocks /\ heap'.blocks[i] = heap.blocks[i]
      ]_vars

\* the number of chunks the caller holds after the call log[i]
Outstanding(i) ==
    Cardinality({j \in 1 .. i : Acquires(j)})
      - Cardinality({j \in 1 .. i : Releases(j)})

\* the largest number of chunks the caller held at one time
Peak ==
    IF log = <<>> THEN 0
    ELSE CHOOSE m \in {Outstanding(i) : i \in DOMAIN log} :
            \A i \in DOMAIN log : Outstanding(i) <= m

\* the smallest number of blocks of n chunks that hold x chunks
Ceil(x, n) == (x + n - 1) \div n

\* C18: the number of blocks a pool owns is the peak number of chunks the
\* caller held at one time, divided by chunks_per_block_ and rounded up.
C18_BlocksMatchPeak ==
    (T = NoType /\ pc = "live") =>
        Len(heap.blocks) = Ceil(Peak, pool.chunks_per_block_)

\* C18: allocate() obtains a block only while the caller holds every chunk
\* the pool has ever returned.
C18_BlockOnlyWhenAllHeld ==
    [][ (Calls("allocate") /\ Len(heap'.blocks) > Len(heap.blocks))
        => Returned \subseteq handed ]_vars

\* C19: for every chunk p the caller holds, deallocate(p) followed by
\* allocate() returns p and leaves the free-list head, the block list, the
\* bump cursor and the bump limit as they were before the deallocate.
C19_DeallocateAllocateRoundTrip ==
    (T = NoType /\ pc = "live") =>
        \A p \in handed :
            LET d == deallocate(pool, heap, p)
            IN  \A a \in allocate(d.pool, d.heap) :
                    /\ a.status = "ok"
                    /\ a.ret = p
                    /\ a.pool = pool
                    /\ a.heap.blocks = heap.blocks
                    /\ BlockList(a.heap) = BlockList(heap)

\* C20: for a typed pool chunk_size_ = max(pointer size, sizeof(T)): it is
\* not less than sizeof(T) and it is a multiple of alignof(T).
C20_TypedSizing ==
    (pc = "live" /\ T # NoType) =>
        /\ pool.chunk_size_ = Max(PtrSize, T.size)
        /\ pool.chunk_size_ >= T.size
        /\ pool.chunk_size_ % T.align = 0

\* pools were constructed for a type smaller than a pointer and for a type
\* aligned more strictly than a pointer
C20_Witness ==
    /\ pc = "live"
    /\ \/ T.size < PtrSize /\ T.align > 1
       \/ T.align > PtrSize /\ T.size > T.align

====
